---- MODULE Spec2Model ----
(***************************************************************************)
(* Model of the circuit breaker of pipeline_monitoring/circuit_breaker.py. *)
(*                                                                         *)
(* One CircuitBreaker instance, called by a single-threaded client.  The   *)
(* wall clock (datetime.now()) is the variable now, counted in ticks of    *)
(* 1/TicksPerSecond seconds; it only moves in the Advance actions, so each *)
(* breaker method reads one value of the clock, as a call that runs much   *)
(* faster than the clock's resolution does.                                *)
(*                                                                         *)
(* ValidatorSpec models ContractValidator.validate_batch of                *)
(* data_contracts/validators/contract_validator.py, one loop iteration per *)
(* step.  PipelineSpec models IngestionPipeline.run of                     *)
(* ingestion/pipeline.py, one stage per step, on its own breaker and       *)
(* validator; the source and the destination are collaborators whose       *)
(* answers are drawn nondeterministically.                                 *)
(*                                                                         *)
(* TimedSpec is the pipeline with the wall clock moving between the runs   *)
(* and between the stages of a run.                                        *)
(*                                                                         *)
(* ContractSpec models ContractValidator.validate_single on the            *)
(* CryptoPriceContract of data_contracts/schemas/crypto_price.py: prices   *)
(* in cents, times in ticks, symbols as sequences of characters.           *)
(* OverlapSpec models two callers whose runs on one pipeline overlap, with *)
(* record_failure followed statement by statement.                         *)
(***************************************************************************)
EXTENDS Integers, Sequences, FiniteSets, TLC

\* ---------------------------------------------------------------- bounds

\* Resolution of the modelled clock: ticks per second (datetime has
\* microseconds; any resolution finer than one second shows the truncation).
TicksPerSecond == 2
\* failure_threshold is drawn from 1..MaxThreshold at construction.
MaxThreshold == 3
\* record_failure / record_success are not called once the history is this long.
MaxFailures == 4
MaxSuccesses == 1
\* Number of times the clock is advanced in one behaviour.
MaxAdvances == 2
\* read_records returns, and validate_batch is given, at most this many records.
MaxRecords == 5
\* validate_batch is called directly with max_violations in 0..MaxViolationsArg,
\* or with its default.
MaxViolationsArg == 2

\* ------------------------------------------------------ program constants

\* timedelta.seconds is the seconds component of the difference, 0..86399.
SecondsPerDay == 86400
\* recovery_timeout: the constructor's default, which IngestionPipeline passes too.
DefaultRecoveryTimeout == 300
\* get_status reports failure_history[-5:].
RecentFailures == 5
\* IngestionPipeline.__init__: CircuitBreaker(failure_threshold=3, ...)
PipelineThreshold == 3
\* IngestionPipeline.run: validate_batch(..., max_violations=5)
PipelineMaxViolations == 5
\* validate_batch(..., max_violations: int = 10)
DefaultMaxViolations == 10

\* CircuitState
CLOSED == "closed"
OPEN == "open"
HALF_OPEN == "half_open"
CircuitState == {CLOSED, OPEN, HALF_OPEN}

\* None, for the two timestamps (real timestamps are >= 0).
None == -1

\* The exceptions handed to record_failure.
Errors == {"ValueError"}

VARIABLES
    failure_threshold,   \* constructor argument
    recovery_timeout,    \* constructor argument, seconds
    alert_callback,      \* TRUE when a callback was given (as IngestionPipeline
                         \* and the demo do), FALSE for None
    state,
    failure_count,
    last_failure_time,
    last_success_time,
    failure_history,     \* entries without their "timestamp", which is
    success_history,     \* last_failure_time / last_success_time at the append
    now,                 \* datetime.now(), in ticks
    alerts,              \* the calls the alert callback received from the last call
    op,                  \* the method the client called last
    ret,                 \* what is_open() returned, when op = "is_open"
    status,              \* <<snapshot>> get_status() returned, when op = "get_status"
    pre_state,           \* self.state when the last call began
    streak,              \* record_failure calls since the last record_success,
                         \* reset or construction
    only_failures,       \* no method but record_failure was called so far
    advances             \* number of Advance steps taken

\* ContractValidator.validate_batch: the call in progress or last finished.
VARIABLES
    vb_pc,               \* "idle", "loop", "returned" or "raised"
    vb_data,             \* data_list
    vb_fail_fast,        \* fail_fast
    vb_max,              \* max_violations
    vb_idx,              \* idx of the for loop (0-based)
    vb_valid_count,      \* valid_count
    vb_violations,       \* violations, without 'error' text and 'timestamp'
    vb_evaluated,        \* the indices validate_single was called on, in order
    vb_out               \* <<result>> returned, <<error>> raised, or <<>>

\* IngestionPipeline.run: the call in progress or last finished.
VARIABLES
    pc,                  \* "idle" between runs, else the stage to execute next
    validate_data,       \* run's argument
    calls,               \* the collaborator and breaker calls of the run, in order
    records,             \* <<list>> source.read_records returned, or <<>>
    written,             \* <<records>> handed to destination.write_records, or <<>>
    failed_stage,        \* the stage in which the run failed, or "none"
    failed_by,           \* the class of the exception that ended the run: run's
                         \* own "Exception", a collaborator's, or "none"
    result               \* <<dict>> returned; status "raised" stands for the
                         \* exception run raised instead of returning; or <<>>

\* ContractValidator.validate_single on a CryptoPriceContract: the last call.
VARIABLES
    cs_pc,               \* "idle", or "validated" once a call was made
    cs_record,           \* <<data>> of the call, or <<>>
    cs_now,              \* datetime.now() as timestamp_must_be_recent read it
    cs_out               \* <<[valid, message]>> returned, or <<>>

\* Overlapping callers of one breaker (threads that each make runs).
VARIABLES
    th_pc,               \* per caller: "idle", "admitted" past the gate, or
                         \* its position inside record_failure
    th_reg,              \* per caller: the failure_count it loaded for "+= 1"
    th_gate,             \* per caller: the state is_open() left when it
                         \* admitted the caller's run in flight, or "none"
    th_in                \* per caller: self.state when its latest
                         \* record_failure call began, or "none"

bvars == <<failure_threshold, recovery_timeout, alert_callback, state,
           failure_count, last_failure_time, last_success_time,
           failure_history, success_history, now, alerts, op, ret, status,
           pre_state, streak, only_failures, advances>>

vvars == <<vb_pc, vb_data, vb_fail_fast, vb_max, vb_idx, vb_valid_count,
           vb_violations, vb_evaluated, vb_out>>

pvars == <<pc, validate_data, calls, records, written, failed_stage,
           failed_by, result>>

cvars == <<cs_pc, cs_record, cs_now, cs_out>>

ovars == <<th_pc, th_reg, th_gate, th_in>>

vars == <<bvars, vvars, pvars, cvars, ovars>>

config == <<failure_threshold, recovery_timeout, alert_callback>>

\* ------------------------------------------------------------ construction

\* No validate_batch call was made yet.
ValidatorIdle ==
    /\ vb_pc = "idle"
    /\ vb_data = <<>>
    /\ vb_fail_fast = FALSE
    /\ vb_max = 0
    /\ vb_idx = 0
    /\ vb_valid_count = 0
    /\ vb_violations = <<>>
    /\ vb_evaluated = <<>>
    /\ vb_out = <<>>

\* No run was started yet.
PipelineIdle ==
    /\ pc = "idle"
    /\ validate_data = FALSE
    /\ calls = <<>>
    /\ records = <<>>
    /\ written = <<>>
    /\ failed_stage = "none"
    /\ failed_by = "none"
    /\ result = <<>>

\* No validate_single call was made yet.
ContractIdle ==
    /\ cs_pc = "idle"
    /\ cs_record = <<>>
    /\ cs_now = 0
    /\ cs_out = <<>>

\* The callers of the breaker.
Callers == {"A", "B"}

\* No caller has a run in flight.
CallersIdle ==
    /\ th_pc = [c \in Callers |-> "idle"]
    /\ th_reg = [c \in Callers |-> 0]
    /\ th_gate = [c \in Callers |-> "none"]
    /\ th_in = [c \in Callers |-> "none"]

Init ==
    /\ ValidatorIdle
    /\ PipelineIdle
    /\ ContractIdle
    /\ CallersIdle
    /\ failure_threshold \in 1..MaxThreshold
    /\ recovery_timeout = DefaultRecoveryTimeout
    /\ alert_callback = TRUE
    /\ state = CLOSED
    /\ failure_count = 0
    /\ last_failure_time = None
    /\ last_success_time = None
    /\ failure_history = <<>>
    /\ success_history = <<>>
    /\ now = 0
    /\ alerts = <<>>
    /\ op = "init"
    /\ ret = FALSE
    /\ status = <<>>
    /\ pre_state = CLOSED
    /\ streak = 0
    /\ only_failures = TRUE
    /\ advances = 0

\* ------------------------------------------------------------------ is_open

\* (datetime.now() - self.last_failure_time).seconds: whole seconds of the
\* difference, without its days.
ElapsedSeconds(t0, t1) == ((t1 - t0) \div TicksPerSecond) % SecondsPerDay

RecoveryDue_at_once(lft, t, timeout) == lft # None

RecoveryDue_inverted(lft, t, timeout) ==
    /\ lft # None
    /\ ElapsedSeconds(lft, t) < timeout

\* if self.last_failure_time: ... if elapsed > self.recovery_timeout
RecoveryDue(lft, t, timeout) ==
    /\ lft # None
    /\ ElapsedSeconds(lft, t) > timeout

\* The value is_open returns in state s.
is_open_ret(s, lft, t, timeout) ==
    IF s = OPEN THEN ~RecoveryDue(lft, t, timeout) ELSE FALSE

\* The state is_open leaves in state s.
is_open_state(s, lft, t, timeout) ==
    IF s = OPEN /\ RecoveryDue(lft, t, timeout) THEN HALF_OPEN ELSE s

is_open ==
    /\ state' = is_open_state(state, last_failure_time, now, recovery_timeout)
    /\ ret' = is_open_ret(state, last_failure_time, now, recovery_timeout)
    /\ op' = "is_open"
    /\ pre_state' = state
    /\ only_failures' = FALSE
    /\ status' = <<>>
    /\ alerts' = <<>>
    /\ UNCHANGED <<config, failure_count, last_failure_time,
                   last_success_time, failure_history, success_history,
                   now, streak, advances>>

\* ----------------------------------------------------------- record_success

success_state_always(s) == CLOSED

success_state_never(s) == s

\* if self.state == CircuitState.HALF_OPEN: self.state = CLOSED
success_state(s) == IF s = HALF_OPEN THEN CLOSED ELSE s

success_count_keep(s, n) == n

success_count_always(s, n) == 0

\* ... self.failure_count = 0
success_count(s, n) == IF s = HALF_OPEN THEN 0 ELSE n

record_success ==
    /\ Len(success_history) < MaxSuccesses
    /\ last_success_time' = now
    /\ success_history' = Append(success_history, [state |-> state])
    /\ state' = success_state(state)
    /\ failure_count' = success_count(state, failure_count)
    /\ op' = "record_success"
    /\ pre_state' = state
    /\ streak' = 0
    /\ only_failures' = FALSE
    /\ ret' = FALSE
    /\ status' = <<>>
    /\ alerts' = <<>>
    /\ UNCHANGED <<config, last_failure_time, failure_history, now, advances>>

\* ----------------------------------------------------------- record_failure

threshold_reached_gt(n, threshold) == n > threshold

threshold_reached_eq(n, threshold) == n = threshold

\* if self.failure_count >= self.failure_threshold, after the increment
threshold_reached(n, threshold) == n >= threshold

trip_state_keep(s, n, threshold) == s

trip_state_half_open(s, n, threshold) ==
    IF threshold_reached(n, threshold) THEN HALF_OPEN ELSE s

\* self._trip_circuit(error): the state it leaves
trip_state(s, n, threshold) ==
    IF threshold_reached(n, threshold) THEN OPEN ELSE s

failure_alerts_else(cb, s, n, threshold, err) ==
    IF ~cb THEN <<>>
    ELSE IF threshold_reached(n, threshold)
           THEN <<[error |-> err, state |-> OPEN, is_critical |-> TRUE]>>
           ELSE <<[error |-> err, state |-> s, is_critical |-> FALSE]>>

\* The callback calls of one record_failure, in order: _trip_circuit's
\* (is_critical=True) when the threshold is reached, then the one under
\* "Always alert on failure" (is_critical defaults to False), which passes
\* self.state as it is after the trip.
failure_alerts(cb, s, n, threshold, err) ==
    IF ~cb THEN <<>>
    ELSE (IF threshold_reached(n, threshold)
            THEN <<[error |-> err, state |-> OPEN, is_critical |-> TRUE]>>
            ELSE <<>>)
         \o <<[error |-> err, state |-> trip_state(s, n, threshold),
               is_critical |-> FALSE]>>

failure_time_unless_open(s, lft, t) == IF s = OPEN THEN lft ELSE t

failure_time_of_trip(s, lft, t) == IF s = HALF_OPEN THEN lft ELSE t

\* self.last_failure_time = datetime.now(), in whatever state s, with the
\* clock at t.
failure_time(s, lft, t) == t

failure_record_stale(err, n) == [error |-> err, failure_count |-> n - 1]

\* failure_record = {"error": str(error), "failure_count": self.failure_count},
\* built after the increment, when self.failure_count is n.
failure_record(err, n) == [error |-> err, failure_count |-> n]

record_failure(err) ==
    /\ Len(failure_history) < MaxFailures
    /\ last_failure_time' = failure_time(state, last_failure_time, now)
    /\ failure_count' = failure_count + 1
    /\ failure_history' =
          Append(failure_history, failure_record(err, failure_count + 1))
    /\ state' = trip_state(state, failure_count + 1, failure_threshold)
    /\ alerts' = failure_alerts(alert_callback, state, failure_count + 1,
                                failure_threshold, err)
    /\ op' = "record_failure"
    /\ pre_state' = state
    /\ streak' = streak + 1
    /\ ret' = FALSE
    /\ status' = <<>>
    /\ UNCHANGED <<config, last_success_time, success_history, now,
                   only_failures, advances>>

\* -------------------------------------------------------------------- reset

reset_count_keep(n) == n

\* self.state = CircuitState.CLOSED
reset_state == CLOSED

\* self.failure_count = 0
reset_count(n) == 0

reset ==
    /\ state' = reset_state
    /\ failure_count' = reset_count(failure_count)
    /\ op' = "reset"
    /\ pre_state' = state
    /\ streak' = 0
    /\ only_failures' = FALSE
    /\ ret' = FALSE
    /\ status' = <<>>
    /\ alerts' = <<>>
    /\ UNCHANGED <<config, last_failure_time, last_success_time,
                   failure_history, success_history, now, advances>>

\* --------------------------------------------------------------- get_status

\* failure_history[-5:]
Recent(h) ==
    IF Len(h) <= RecentFailures THEN h
    ELSE SubSeq(h, Len(h) - RecentFailures + 1, Len(h))

\* The dict is built entry by entry: "state" is read before "is_open" calls
\* self.is_open(), which may move the breaker to HALF_OPEN.
get_status ==
    /\ status' = << [state |-> state,
                     failure_count |-> failure_count,
                     failure_threshold |-> failure_threshold,
                     last_failure |-> last_failure_time,
                     last_success |-> last_success_time,
                     recent_failures |-> Recent(failure_history),
                     is_open |-> is_open_ret(state, last_failure_time, now,
                                             recovery_timeout)] >>
    /\ state' = is_open_state(state, last_failure_time, now, recovery_timeout)
    /\ op' = "get_status"
    /\ pre_state' = state
    /\ only_failures' = FALSE
    /\ ret' = FALSE
    /\ alerts' = <<>>
    /\ UNCHANGED <<config, failure_count, last_failure_time,
                   last_success_time, failure_history, success_history,
                   now, streak, advances>>

\* -------------------------------------------------------------------- clock

\* The amounts of time that pass between two calls: one tick (less than a
\* second), the recovery timeout, one second more than it, a day.
Deltas ==
    {1, recovery_timeout * TicksPerSecond,
     (recovery_timeout + 1) * TicksPerSecond, SecondsPerDay * TicksPerSecond}

Advance(d) ==
    /\ advances < MaxAdvances
    /\ now' = now + d
    /\ advances' = advances + 1
    /\ UNCHANGED <<config, state, failure_count, last_failure_time,
                   last_success_time, failure_history, success_history,
                   alerts, op, ret, status, pre_state, streak, only_failures>>

\* ------------------------------------------------------------ specification

Next ==
    \/ is_open /\ UNCHANGED <<vvars, pvars, cvars, ovars>>
    \/ record_success /\ UNCHANGED <<vvars, pvars, cvars, ovars>>
    \/ \E err \in Errors : record_failure(err) /\ UNCHANGED <<vvars, pvars, cvars, ovars>>
    \/ reset /\ UNCHANGED <<vvars, pvars, cvars, ovars>>
    \/ get_status /\ UNCHANGED <<vvars, pvars, cvars, ovars>>
    \/ \E d \in Deltas : Advance(d) /\ UNCHANGED <<vvars, pvars, cvars, ovars>>

Spec == Init /\ [][Next]_vars

TypeOK ==
    /\ failure_threshold \in 1..MaxThreshold
    /\ state \in CircuitState
    /\ failure_count \in 0..MaxFailures
    /\ last_failure_time = None
          \/ (0 <= last_failure_time /\ last_failure_time <= now)
    /\ last_success_time = None
          \/ (0 <= last_success_time /\ last_success_time <= now)
    /\ Len(failure_history) <= MaxFailures
    /\ Len(success_history) <= MaxSuccesses
    /\ ret \in BOOLEAN
    /\ Len(status) <= 1
    /\ pre_state \in CircuitState
    /\ streak \in 0..MaxFailures

\* ======================================================== ContractValidator

\* What the contract says of a record, as far as the batch loop and the
\* pipeline depend on it: the record satisfies the contract, violates it, or
\* (a raw record of the source only) lacks 'symbol' or 'current_price'.
VALID_REC == "valid"
INVALID_REC == "invalid"
NOKEY_REC == "missing_field"

\* The records validate_batch is given.
ContractRecords == {VALID_REC, INVALID_REC}

\* All sequences over S of length at most n.
SeqsUpTo(S, n) == UNION {[1..k -> S] : k \in 0..n}

\* validate_single(record)[0]: self.contract_schema(**data) raised no
\* ValidationError.
validate_single(record) == record = VALID_REC

\* validate_batch(data_list, fail_fast, max_violations), up to the loop:
\* total = len(data_list); valid_count = 0; violations = [].
validate_batch_call(data_list, fail_fast, max_violations) ==
    /\ vb_pc' = "loop"
    /\ vb_data' = data_list
    /\ vb_fail_fast' = fail_fast
    /\ vb_max' = max_violations
    /\ vb_idx' = 0
    /\ vb_valid_count' = 0
    /\ vb_violations' = <<>>
    /\ vb_evaluated' = <<>>
    /\ vb_out' = <<>>

fail_fast_ignored(fail_fast) == FALSE

\* if fail_fast: raise DataContractViolation("... at record {idx} ...")
fail_fast_raises(fail_fast) == fail_fast

too_many_gt(n, max_violations) == n > max_violations

\* if len(violations) >= max_violations: raise DataContractViolation(...)
too_many(n, max_violations) == n >= max_violations

\* The violation appended for record idx.
violation(idx, record) == [record_index |-> idx, record |-> record]

\* One iteration of "for idx, record in enumerate(data_list)".
validate_batch_iterate ==
    /\ vb_pc = "loop"
    /\ vb_idx < Len(vb_data)
    /\ LET record == vb_data[vb_idx + 1]
           found == Append(vb_violations, violation(vb_idx, record))
       IN  /\ vb_evaluated' = Append(vb_evaluated, vb_idx)
           /\ IF validate_single(record)
                THEN /\ vb_valid_count' = vb_valid_count + 1
                     /\ vb_idx' = vb_idx + 1
                     /\ UNCHANGED <<vb_pc, vb_violations, vb_out>>
                ELSE /\ vb_violations' = found
                     /\ UNCHANGED vb_valid_count
                     /\ IF fail_fast_raises(vb_fail_fast)
                          THEN /\ vb_pc' = "raised"
                               /\ vb_out' = <<[kind |-> "record",
                                              record_index |-> vb_idx,
                                              record |-> record]>>
                               /\ UNCHANGED vb_idx
                          ELSE IF too_many(Len(found), vb_max)
                          THEN /\ vb_pc' = "raised"
                               /\ vb_out' = <<[kind |-> "too_many",
                                              count |-> Len(found),
                                              first |-> found[1]]>>
                               /\ UNCHANGED vb_idx
                          ELSE /\ vb_idx' = vb_idx + 1
                               /\ UNCHANGED <<vb_pc, vb_out>>
    /\ UNCHANGED <<vb_data, vb_fail_fast, vb_max>>

violation_rate_floor(invalid_count, total) ==
    IF total > 0 THEN <<invalid_count \div total, 1>> ELSE <<0, 1>>

\* 'violation_rate': invalid_count / total if total > 0 else 0, as the
\* fraction <<numerator, denominator>>.
violation_rate(invalid_count, total) ==
    IF total > 0 THEN <<invalid_count, total>> ELSE <<0, 1>>

\* After the loop: invalid_count = total - valid_count; return result.
validate_batch_return ==
    /\ vb_pc = "loop"
    /\ vb_idx = Len(vb_data)
    /\ vb_pc' = "returned"
    /\ LET total == Len(vb_data)
           invalid_count == total - vb_valid_count
       IN  vb_out' = <<[valid |-> invalid_count = 0,
                        total_records |-> total,
                        valid_records |-> vb_valid_count,
                        invalid_records |-> invalid_count,
                        violations |-> vb_violations,
                        violation_rate |->
                            violation_rate(invalid_count, total)]>>
    /\ UNCHANGED <<vb_data, vb_fail_fast, vb_max, vb_idx, vb_valid_count,
                   vb_violations, vb_evaluated>>

\* A client calls validate_batch once the previous call is over.
ValidatorCall ==
    /\ vb_pc # "loop"
    /\ \E data_list \in SeqsUpTo(ContractRecords, MaxRecords),
          fail_fast \in BOOLEAN,
          max_violations \in 0..MaxViolationsArg \cup {DefaultMaxViolations} :
          validate_batch_call(data_list, fail_fast, max_violations)

ValidatorNext ==
    \/ ValidatorCall /\ UNCHANGED <<bvars, pvars, cvars, ovars>>
    \/ validate_batch_iterate /\ UNCHANGED <<bvars, pvars, cvars, ovars>>
    \/ validate_batch_return /\ UNCHANGED <<bvars, pvars, cvars, ovars>>

\* The breaker of this specification is never called.
ValidatorInit == Init /\ failure_threshold = PipelineThreshold

ValidatorSpec == ValidatorInit /\ [][ValidatorNext]_vars

\* ====================================================== CryptoPriceContract

\* Field(min_length=2, max_length=10) of symbol.
MinSymbolLength == 2
MaxSymbolLength == 10
\* Field(decimal_places=2) of price: prices are whole cents, 100 to the dollar.
CentsPerDollar == 100
\* price_must_be_reasonable: if v > 1_000_000
MaxPriceDollars == 1000000
\* price_must_be_reasonable: if v < 0.01.  v is a Decimal and 0.01 a float,
\* the double next above 1/100, so the whole-cent prices below it are those
\* of at most this many cents.
LowPriceCents == 1
\* timestamp_must_be_recent: age_hours = total_seconds() / 3600, > 24
SecondsPerHour == 3600
MaxAgeHours == 24

MaxAgeTicks == MaxAgeHours * SecondsPerHour * TicksPerSecond

\* Characters of symbols: upper-case letters, lower-case letters, digits.
UpperChars == {"B", "T", "C"}
LowerChars == {"b", "t", "c"}

Rep(ch, n) == [i \in 1..n |-> ch]

\* The symbols given: of every length around the two limits, in each case.
Symbols ==
    {<<>>, <<"B">>, <<"b">>, <<"B", "T">>, <<"b", "t">>, <<"1", "2">>,
     <<"B", "T", "C">>, <<"b", "t", "c">>, <<"B", "t", "C">>,
     <<"B", "T", "1">>, Rep("B", MaxSymbolLength), Rep("b", MaxSymbolLength),
     Rep("B", MaxSymbolLength + 1), Rep("b", MaxSymbolLength + 1)}

\* The prices given, in cents: -100, 0, 0.01, 0.02, 42000.50, the limit of
\* 1,000,000 and its neighbours, 5,000,000.
Prices ==
    {-10000, 0, LowPriceCents, LowPriceCents + 1, 4200050,
     MaxPriceDollars * CentsPerDollar - 1, MaxPriceDollars * CentsPerDollar,
     MaxPriceDollars * CentsPerDollar + 1,
     5 * MaxPriceDollars * CentsPerDollar}

\* validate_single is called at this time (late enough for a timestamp more
\* than 24 hours old to exist).
ValidationTime == MaxAgeTicks + TicksPerSecond

\* The timestamps given: one tick more than 24 hours old, 24 hours old, one
\* tick old, now, one tick ahead.
Timestamps ==
    {ValidationTime - MaxAgeTicks - 1, ValidationTime - MaxAgeTicks,
     ValidationTime - 1, ValidationTime, ValidationTime + 1}

\* volume and market_cap, in cents: <<>> when absent (None).
Optionals == {<<>>, <<-10000>>, <<0>>, <<123456789>>}

ContractData ==
    [symbol : Symbols, price : Prices, timestamp : Timestamps,
     volume : Optionals, market_cap : Optionals]

\* str.isupper(): some cased character, and no lower-case one.
isupper(v) ==
    /\ \E i \in DOMAIN v : v[i] \in UpperChars
    /\ \A i \in DOMAIN v : v[i] \notin LowerChars

symbol_errors_all(v) ==
    (IF Len(v) < MinSymbolLength THEN <<"min_length">> ELSE <<>>)
    \o (IF Len(v) > MaxSymbolLength THEN <<"max_length">> ELSE <<>>)
    \o (IF ~isupper(v) THEN <<"uppercase">> ELSE <<>>)

\* symbol: the Field's length constraints, then symbol_must_be_uppercase,
\* which pydantic calls only on a value that passed the constraints.
symbol_errors(v) ==
    IF Len(v) < MinSymbolLength THEN <<"min_length">>
    ELSE IF Len(v) > MaxSymbolLength THEN <<"max_length">>
    ELSE IF ~isupper(v) THEN <<"uppercase">>
    ELSE <<>>

\* if v > 1_000_000
price_too_high(v) == v > MaxPriceDollars * CentsPerDollar

\* if v < 0.01
price_too_low(v) == v <= LowPriceCents

\* price: the Field's gt=0 (decimal_places=2 holds of whole cents), then
\* price_must_be_reasonable.
price_errors(v) ==
    IF ~(v > 0) THEN <<"gt">>
    ELSE IF price_too_high(v) THEN <<"high">>
    ELSE IF price_too_low(v) THEN <<"low">>
    ELSE <<>>

\* timestamp_must_be_recent, with now = t.
timestamp_errors(v, t) ==
    IF t - v > MaxAgeTicks THEN <<"too_old">>
    ELSE IF v > t THEN <<"future">>
    ELSE <<>>

\* volume, market_cap: Optional[Decimal] with ge=0.
optional_errors(v) ==
    IF v # <<>> /\ ~(v[1] >= 0) THEN <<"ge">> ELSE <<>>

\* The errors of fld, each with its location.
Located(fld, errs) == [k \in DOMAIN errs |-> [loc |-> fld, msg |-> errs[k]]]

\* self.contract_schema(**data): ValidationError.errors(), the errors of
\* all fields in the order the fields are declared; <<>> when none is raised.
contract_schema(data, t) ==
    Located("symbol", symbol_errors(data.symbol))
    \o Located("price", price_errors(data.price))
    \o Located("timestamp", timestamp_errors(data.timestamp, t))
    \o Located("volume", optional_errors(data.volume))
    \o Located("market_cap", optional_errors(data.market_cap))

\* One line "  - {field}: {msg}" per error, joined by newlines.
format_validation_error(errors) ==
    [k \in DOMAIN errors |-> <<errors[k].loc, errors[k].msg>>]

\* validate_single(data) -> (is_valid, error_msg)
validate_single_contract(data, t) ==
    LET errors == contract_schema(data, t)
    IN  [valid |-> errors = <<>>,
         message |-> format_validation_error(errors)]

\* A client calls validate_single(data) at time ValidationTime; the
\* validator keeps nothing from one call to the next, so one call is made.
ContractCall(data) ==
    /\ cs_pc = "idle"
    /\ cs_pc' = "validated"
    /\ cs_record' = <<data>>
    /\ cs_now' = ValidationTime
    /\ cs_out' = <<validate_single_contract(data, ValidationTime)>>

ContractNext ==
    \E data \in ContractData :
        ContractCall(data) /\ UNCHANGED <<bvars, vvars, pvars, ovars>>

\* The breaker of this specification is never called.
ContractInit == Init /\ failure_threshold = PipelineThreshold

ContractSpec == ContractInit /\ [][ContractNext]_vars

\* ======================================================== IngestionPipeline

\* The raw records of the source: as ContractRecords, or without the
\* 'symbol' or 'current_price' key.
RawRecords == {VALID_REC, INVALID_REC, NOKEY_REC}

\* The lists source.read_records returns here: every list of at most two
\* records, and the longer ones in which at most one record is not invalid
\* (those reach, or just miss, max_violations).
Batches ==
    {b \in SeqsUpTo(RawRecords, MaxRecords) :
        \/ Len(b) <= 2
        \/ Cardinality({i \in DOMAIN b : b[i] # INVALID_REC}) <= 1}

\* What a collaborator does when called: reports 'success', reports another
\* status, or raises.
Answers == {"success", "failed", "raise"}

\* Exception classes: run raises Exception(...) itself; RuntimeError stands
\* for whatever subclass of Exception a collaborator raises.
ExceptionClasses == {"Exception", "RuntimeError"}

except_none(cls) == FALSE

except_own_only(cls) == cls = "Exception"

\* except Exception as e:
except_Exception(cls) == cls \in ExceptionClasses

\* The messages of the exceptions run raises, without the collaborator's text.
source_failed_message == "Source connection failed"
destination_failed_message == "Destination connection failed"
no_records_message == "No records extracted from source"
contract_violation_message == "Data contract violation"

load_failed_message_pasted == "Source connection failed"

load_failed_message == "Load failed"
\* str(e) of an exception a collaborator raised.
collaborator_message == "collaborator error"

gate_ignored(open) == FALSE

\* if self.circuit_breaker.is_open(): ... raise CircuitBreakerError(error_msg)
gate_refuses(open) == open

\* run(validate_data), STEP 0.
PRun(v) ==
    /\ pc = "idle"
    /\ is_open
    /\ \/ gate_refuses(ret')
       \/ /\ Len(failure_history) < MaxFailures
          /\ Len(success_history) < MaxSuccesses
    /\ validate_data' = v
    /\ calls' = <<"breaker.is_open">>
    /\ records' = <<>>
    /\ written' = <<>>
    /\ failed_stage' = "none"
    /\ failed_by' = "none"
    /\ vb_pc' = "idle"
    /\ vb_data' = <<>>
    /\ vb_fail_fast' = FALSE
    /\ vb_max' = 0
    /\ vb_idx' = 0
    /\ vb_valid_count' = 0
    /\ vb_violations' = <<>>
    /\ vb_evaluated' = <<>>
    /\ vb_out' = <<>>
    /\ IF gate_refuses(ret')
         THEN /\ result' = <<[status |-> "raised",
                              error |-> "CircuitBreakerError"]>>
              /\ pc' = "idle"
         ELSE /\ result' = <<>>
              /\ pc' = "check_source"

after_failure_retry == "check_source"

\* The except clause ends in "return {...}": the run is over.
after_failure == "idle"

\* The except clause, after collaborator calls cs: record the failure and
\* return the failed dict; an exception it does not catch leaves run.
PFail(stage, cls, msg, cs) ==
    /\ failed_stage' = stage
    /\ failed_by' = cls
    /\ pc' = after_failure
    /\ IF except_Exception(cls)
         THEN /\ record_failure(msg)
              /\ calls' = Append(cs, "breaker.record_failure")
              /\ result' = <<[status |-> "failed",
                              error |-> msg,
                              circuit_breaker_state |-> state',
                              failure_count |-> failure_count']>>
         ELSE /\ calls' = cs
              /\ result' = <<[status |-> "raised", error |-> msg]>>
              /\ UNCHANGED bvars

\* A collaborator's answer that ends the run in stage, with message msg for
\* a reported failure.
PFailOn(answer, stage, msg, cs) ==
    IF answer = "failed"
      THEN PFail(stage, "Exception", msg, cs)
      ELSE PFail(stage, "RuntimeError", collaborator_message, cs)

\* Step 1, source_status = self.source.check_connection()
PCheckSource(answer) ==
    /\ pc = "check_source"
    /\ LET cs == Append(calls, "source.check_connection")
       IN  IF answer = "success"
             THEN /\ pc' = "check_dest"
                  /\ calls' = cs
                  /\ UNCHANGED <<bvars, failed_stage, failed_by, result>>
             ELSE PFailOn(answer, "ConnectionCheck", source_failed_message, cs)
    /\ UNCHANGED <<vvars, validate_data, records, written>>

\* Step 1, dest_status = self.destination.check_connection()
PCheckDest(answer) ==
    /\ pc = "check_dest"
    /\ LET cs == Append(calls, "destination.check_connection")
       IN  IF answer = "success"
             THEN /\ pc' = "extract"
                  /\ calls' = cs
                  /\ UNCHANGED <<bvars, failed_stage, failed_by, result>>
             ELSE PFailOn(answer, "ConnectionCheck",
                          destination_failed_message, cs)
    /\ UNCHANGED <<vvars, validate_data, records, written>>

no_records_never(recs) == FALSE

\* if not records:
no_records(recs) == recs = <<>>

\* if validate_data: ... else: (validation skipped)
after_extract_always_load(v) == "load"

after_extract(v) == IF v THEN "validate" ELSE "load"

\* Step 2, records = self.source.read_records(), which returned recs.
PExtract(recs) ==
    /\ pc = "extract"
    /\ records' = <<recs>>
    /\ LET cs == Append(calls, "source.read_records")
       IN  IF no_records(recs)
             THEN PFail("Extract", "Exception", no_records_message, cs)
             ELSE /\ pc' = after_extract(validate_data)
                  /\ calls' = cs
                  /\ UNCHANGED <<bvars, failed_stage, failed_by, result>>
    /\ UNCHANGED <<vvars, validate_data, written>>

\* Step 2, self.source.read_records() raised.
PExtractRaises ==
    /\ pc = "extract"
    /\ PFail("Extract", "RuntimeError", collaborator_message,
             Append(calls, "source.read_records"))
    /\ UNCHANGED <<vvars, validate_data, records, written>>

contract_records_all(recs) == recs

\* "Convert records to contract format": a record without 'symbol' or
\* 'current_price' raises KeyError, which is printed, and is left out.
contract_records(recs) == SelectSeq(recs, LAMBDA r : r # NOKEY_REC)

\* Step 3, the call self.validator.validate_batch(contract_records,
\* fail_fast=False, max_violations=5).
PValidate ==
    /\ pc = "validate"
    /\ validate_batch_call(contract_records(records[1]), FALSE,
                           PipelineMaxViolations)
    /\ calls' = Append(calls, "validator.validate_batch")
    /\ pc' = "validating"
    /\ UNCHANGED <<bvars, validate_data, records, written, failed_stage,
                   failed_by, result>>

\* Step 3, inside validate_batch.
PValidating ==
    /\ pc = "validating"
    /\ validate_batch_iterate \/ validate_batch_return
    /\ UNCHANGED <<bvars, pvars>>

validation_failed_never(vpc) == FALSE

\* except DataContractViolation as e: raise Exception(...)
validation_failed(vpc) == vpc = "raised"

\* Step 3, validate_batch returned or raised.
PValidated ==
    /\ pc = "validating"
    /\ vb_pc \in {"returned", "raised"}
    /\ IF validation_failed(vb_pc)
         THEN PFail("Validate", "Exception", contract_violation_message, calls)
         ELSE /\ pc' = "load"
              /\ UNCHANGED <<bvars, calls, failed_stage, failed_by, result>>
    /\ UNCHANGED <<vvars, validate_data, records, written>>

load_valid_only(recs) == SelectSeq(recs, LAMBDA r : r = VALID_REC)

\* write_records(records=records, ...)
load_records(recs) == recs

\* The success path: self.circuit_breaker.record_success() and the dict.
PSucceed(cs) ==
    /\ record_success
    /\ calls' = Append(cs, "breaker.record_success")
    /\ result' = <<[status |-> "success",
                    records_extracted |-> Len(records[1]),
                    records_loaded |-> Len(written'[1]),
                    circuit_breaker_state |-> state']>>
    /\ pc' = "idle"
    /\ UNCHANGED <<failed_stage, failed_by>>

\* Step 4, write_result = self.destination.write_records(...)
PLoad(answer) ==
    /\ pc = "load"
    /\ written' = <<load_records(records[1])>>
    /\ LET cs == Append(calls, "destination.write_records")
       IN  IF answer = "success"
             THEN PSucceed(cs)
             ELSE PFailOn(answer, "Load", load_failed_message, cs)
    /\ UNCHANGED <<vvars, validate_data, records>>

PipelineNext ==
    \/ \E v \in BOOLEAN : PRun(v) /\ UNCHANGED <<cvars, ovars>>
    \/ \E answer \in Answers :
          PCheckSource(answer) /\ UNCHANGED <<cvars, ovars>>
    \/ \E answer \in Answers :
          PCheckDest(answer) /\ UNCHANGED <<cvars, ovars>>
    \/ \E recs \in Batches : PExtract(recs) /\ UNCHANGED <<cvars, ovars>>
    \/ PExtractRaises /\ UNCHANGED <<cvars, ovars>>
    \/ PValidate /\ UNCHANGED <<cvars, ovars>>
    \/ PValidating /\ UNCHANGED <<cvars, ovars>>
    \/ PValidated /\ UNCHANGED <<cvars, ovars>>
    \/ \E answer \in Answers : PLoad(answer) /\ UNCHANGED <<cvars, ovars>>

\* IngestionPipeline.__init__: CircuitBreaker(name="crypto_ingestion",
\* failure_threshold=3, recovery_timeout=300, alert_callback=console_alert)
PipelineInit == Init /\ failure_threshold = PipelineThreshold

PipelineSpec == PipelineInit /\ [][PipelineNext]_vars

\* ================================================== pipeline runs over time

\* The runs of one pipeline with the wall clock moving, between runs and
\* between the stages of a run.  Validation is skipped here (run(False)),
\* and read_records returns no record or one.
TimedBatches == {<<>>, <<VALID_REC>>}

TimedNext ==
    \/ PRun(FALSE) /\ UNCHANGED <<cvars, ovars>>
    \/ \E answer \in Answers :
          PCheckSource(answer) /\ UNCHANGED <<cvars, ovars>>
    \/ \E answer \in Answers :
          PCheckDest(answer) /\ UNCHANGED <<cvars, ovars>>
    \/ \E recs \in TimedBatches : PExtract(recs) /\ UNCHANGED <<cvars, ovars>>
    \/ PExtractRaises /\ UNCHANGED <<cvars, ovars>>
    \/ \E answer \in Answers : PLoad(answer) /\ UNCHANGED <<cvars, ovars>>
    \/ \E d \in Deltas : Advance(d) /\ UNCHANGED <<vvars, pvars, cvars, ovars>>

TimedSpec == PipelineInit /\ [][TimedNext]_vars

\* ================================================= overlapping pipeline runs

\* Two callers (threads) make runs on one pipeline, so on one breaker.  The
\* breaker takes no lock: is_open and record_success are short enough to be
\* taken as one step each, while record_failure is followed statement by
\* statement, "self.failure_count += 1" as a load and a store.

\* The callers that are inside record_failure.
Recording == {c \in Callers : th_pc[c] \notin {"idle", "admitted"}}

\* run(), STEP 0, by caller c: refused, or admitted to the stages.
OGate(c) ==
    /\ th_pc[c] = "idle"
    /\ is_open
    /\ IF gate_refuses(ret')
         THEN UNCHANGED ovars
         ELSE /\ th_pc' = [th_pc EXCEPT ![c] = "admitted"]
              /\ th_gate' = [th_gate EXCEPT ![c] = state']
              /\ UNCHANGED <<th_reg, th_in>>

\* The stages of c's run succeeded: self.circuit_breaker.record_success().
OSucceed(c) ==
    /\ th_pc[c] = "admitted"
    /\ record_success
    /\ th_pc' = [th_pc EXCEPT ![c] = "idle"]
    /\ th_gate' = [th_gate EXCEPT ![c] = "none"]
    /\ UNCHANGED <<th_reg, th_in>>

\* A stage of c's run failed; record_failure(e) up to the load of
\* "self.failure_count += 1": self.last_failure_time = datetime.now().
OFailLoad(c) ==
    /\ th_pc[c] = "admitted"
    /\ Len(failure_history) + Cardinality(Recording) < MaxFailures
    /\ last_failure_time' = failure_time(state, last_failure_time, now)
    /\ th_reg' = [th_reg EXCEPT ![c] = failure_count]
    /\ th_pc' = [th_pc EXCEPT ![c] = "rf_loaded"]
    /\ th_in' = [th_in EXCEPT ![c] = state]
    /\ op' = "record_failure"
    /\ pre_state' = state
    /\ streak' = streak + 1
    /\ ret' = FALSE
    /\ status' = <<>>
    /\ alerts' = <<>>
    /\ UNCHANGED <<config, state, failure_count, last_success_time,
                   failure_history, success_history, now, only_failures,
                   advances, th_gate>>

\* The store of "self.failure_count += 1".
OFailStore(c) ==
    /\ th_pc[c] = "rf_loaded"
    /\ failure_count' = th_reg[c] + 1
    /\ th_pc' = [th_pc EXCEPT ![c] = "rf_stored"]
    /\ UNCHANGED <<config, state, last_failure_time, last_success_time,
                   failure_history, success_history, now, alerts, op, ret,
                   status, pre_state, streak, only_failures, advances,
                   th_reg, th_gate, th_in>>

\* failure_record = {..., "failure_count": self.failure_count};
\* self.failure_history.append(failure_record)
OFailAppend(c, err) ==
    /\ th_pc[c] = "rf_stored"
    /\ failure_history' =
          Append(failure_history, failure_record(err, failure_count))
    /\ th_pc' = [th_pc EXCEPT ![c] = "rf_appended"]
    /\ UNCHANGED <<config, state, failure_count, last_failure_time,
                   last_success_time, success_history, now, alerts, op, ret,
                   status, pre_state, streak, only_failures, advances,
                   th_reg, th_gate, th_in>>

\* if self.failure_count >= self.failure_threshold: self._trip_circuit(error)
\* and the alert; record_failure and the run return.
OFailCheck(c, err) ==
    /\ th_pc[c] = "rf_appended"
    /\ state' = trip_state(state, failure_count, failure_threshold)
    /\ alerts' = failure_alerts(alert_callback, state, failure_count,
                                failure_threshold, err)
    /\ th_pc' = [th_pc EXCEPT ![c] = "idle"]
    /\ th_gate' = [th_gate EXCEPT ![c] = "none"]
    /\ UNCHANGED <<config, failure_count, last_failure_time,
                   last_success_time, failure_history, success_history, now,
                   op, ret, status, pre_state, streak, only_failures,
                   advances, th_reg, th_in>>

\* Between two steps the time may pass that lets is_open() leave Open: one
\* second more than the recovery timeout.
RecoveryWait == (recovery_timeout + 1) * TicksPerSecond

OverlapNext ==
    \/ \E c \in Callers : OGate(c) /\ UNCHANGED <<vvars, pvars, cvars>>
    \/ \E c \in Callers : OSucceed(c) /\ UNCHANGED <<vvars, pvars, cvars>>
    \/ \E c \in Callers : OFailLoad(c) /\ UNCHANGED <<vvars, pvars, cvars>>
    \/ \E c \in Callers : OFailStore(c) /\ UNCHANGED <<vvars, pvars, cvars>>
    \/ \E c \in Callers, err \in Errors :
          OFailAppend(c, err) /\ UNCHANGED <<vvars, pvars, cvars>>
    \/ \E c \in Callers, err \in Errors :
          OFailCheck(c, err) /\ UNCHANGED <<vvars, pvars, cvars>>
    \/ Advance(RecoveryWait) /\ UNCHANGED <<vvars, pvars, cvars, ovars>>

\* The pipeline's breaker, as IngestionPipeline.__init__ makes it.
OverlapInit == Init /\ failure_threshold = PipelineThreshold

OverlapSpec == OverlapInit /\ [][OverlapNext]_vars

\* ------------------------------------------------------------------- claims

\* The step is a call of method m (the clock stands still during a call).
Calls(m) == op' = m /\ now' = now

\* Ticks since the last failure.
Elapsed == now - last_failure_time

\* is_critical of each callback call of the last record_failure, in order.
AlertFlags == [i \in DOMAIN alerts |-> alerts[i].is_critical]

\* C1: from a fresh breaker, while only record_failure has been called, the
\* breaker has counted every call and is Closed as long as fewer than
\* failure_threshold calls were made, Open from the call that reaches it.
C1_TripsAtThreshold ==
    only_failures =>
        /\ failure_count = Len(failure_history)
        /\ state = IF failure_count >= failure_threshold THEN OPEN ELSE CLOSED

\* The third of three failures has just tripped a breaker of threshold 3.
C1_Witness ==
    /\ only_failures
    /\ op = "record_failure"
    /\ failure_threshold = 3
    /\ failure_count = 3
    /\ pre_state = CLOSED
    /\ state = OPEN

\* C2: while the breaker is Open and less than recovery_timeout has elapsed
\* since last_failure_time, every is_open() (called directly or by
\* get_status) returns true and leaves the state Open.
C2_OpenUntilTimeout ==
    [][(state = OPEN /\ Elapsed < recovery_timeout * TicksPerSecond) =>
          /\ Calls("is_open") => (ret' /\ state' = OPEN)
          /\ Calls("get_status") => (status'[1].is_open /\ state' = OPEN)
      ]_vars

\* is_open() has returned true on an Open breaker some time after the trip
\* and before the timeout.
C2_Witness ==
    /\ op = "is_open"
    /\ pre_state = OPEN
    /\ state = OPEN
    /\ ret
    /\ Elapsed > 0
    /\ Elapsed < recovery_timeout * TicksPerSecond

\* C3: when the state is Open and the time elapsed since last_failure_time
\* is at least recovery_timeout (exactly equal included), is_open() sets the
\* state to HalfOpen and returns false.
C3_HalfOpenAtTimeout ==
    [][(Calls("is_open") /\ state = OPEN
          /\ Elapsed >= recovery_timeout * TicksPerSecond) =>
          (state' = HALF_OPEN /\ ~ret')
      ]_vars

\* C4: with threshold 3, once tripped, after any wait that exceeds
\* recovery_timeout by a whole second or more (a day or more included) the
\* next is_open() returns false and the state becomes HalfOpen.
C4_RecoversAfterAnyLongerWait ==
    [][(Calls("is_open") /\ failure_threshold = 3 /\ state = OPEN
          /\ Elapsed >= (recovery_timeout + 1) * TicksPerSecond) =>
          (~ret' /\ state' = HALF_OPEN)
      ]_vars

\* C5: record_success() called in HalfOpen sets the state to Closed and
\* failure_count to 0; called in Closed it leaves the state Closed.
C5_SuccessRecovers ==
    [][Calls("record_success") =>
          /\ state = HALF_OPEN => (state' = CLOSED /\ failure_count' = 0)
          /\ state = CLOSED => state' = CLOSED
      ]_vars

\* A success recorded in HalfOpen has closed the breaker.
C5_Witness ==
    /\ op = "record_success"
    /\ pre_state = HALF_OPEN
    /\ success_history[Len(success_history)].state = HALF_OPEN
    /\ state = CLOSED
    /\ failure_count = 0

\* C6: whatever came before and however much time has passed, reset() leaves
\* the state Closed and failure_count 0, and the is_open() that follows it
\* (at any later time) returns false.
C6_ResetCloses ==
    /\ [](op = "reset" => (state = CLOSED /\ failure_count = 0))
    /\ [][(op = "reset" /\ Calls("is_open")) => (~ret' /\ state' = CLOSED)]_vars

\* reset() was called on a breaker that was not Closed, whose last failure
\* had reached the threshold some time before.
C6_Witness ==
    /\ op = "reset"
    /\ pre_state # CLOSED
    /\ failure_history # <<>>
    /\ failure_history[Len(failure_history)].failure_count >= failure_threshold
    /\ Elapsed > 0
    /\ state = CLOSED
    /\ failure_count = 0

\* C7: a record_failure call made in HalfOpen moves the breaker back to Open
\* and calls the alert callback with is_critical = true.
C7_HalfOpenFailureRetrips ==
    [][(Calls("record_failure") /\ state = HALF_OPEN) =>
          /\ state' = OPEN
          /\ \E i \in DOMAIN alerts' :
                alerts'[i].is_critical /\ alerts'[i].state = OPEN
      ]_vars

\* A failure recorded in HalfOpen has re-opened the breaker.
C7_Witness ==
    /\ op = "record_failure"
    /\ pre_state = HALF_OPEN
    /\ state = OPEN
    /\ failure_count > failure_threshold

\* C8: failure_count counts consecutive failures, so a Closed breaker only
\* trips on a record_failure that completes failure_threshold failures with
\* no record_success (or reset) in between.
C8_TripsOnConsecutiveFailuresOnly ==
    (op = "record_failure" /\ pre_state = CLOSED /\ state = OPEN) =>
        streak >= failure_threshold

\* C9 as claimed: every record_failure makes exactly one callback call, with
\* is_critical = true exactly when the failure reaches the threshold.
C9_OneAlertPerFailure ==
    op = "record_failure" =>
        AlertFlags = << failure_count >= failure_threshold >>

\* C9 as amended: every record_failure ends with one callback call with
\* is_critical = false; a failure that reaches the threshold makes one call
\* with is_critical = true before it, and so alerts twice.
C9_AlwaysAlertsAndCriticalOnTrip ==
    op = "record_failure" =>
        AlertFlags = IF failure_count >= failure_threshold
                       THEN <<TRUE, FALSE>>
                       ELSE <<FALSE>>

\* A failure has tripped the breaker and alerted twice, the second time with
\* the state Open and is_critical = false.
C9_Witness ==
    /\ op = "record_failure"
    /\ pre_state = CLOSED
    /\ state = OPEN
    /\ Len(alerts) = 2
    /\ alerts[2].state = OPEN
    /\ ~alerts[2].is_critical

\* C10: get_status() is read-only: it leaves state, failure_count, both
\* timestamps and both histories unchanged.
C10_GetStatusReadOnly ==
    [][Calls("get_status") =>
          UNCHANGED <<state, failure_count, last_failure_time,
                      last_success_time, failure_history, success_history>>
      ]_vars

\* ------------------------------------------- claims on IngestionPipeline.run

Last(s) == s[Len(s)]
Count(s, x) == Cardinality({i \in DOMAIN s : s[i] = x})
IsPrefix(s, t) == Len(s) <= Len(t) /\ \A i \in DOMAIN s : s[i] = t[i]
Outcomes == {"breaker.record_failure", "breaker.record_success"}
Returned(st) == result # <<>> /\ result[1].status = st

\* The collaborator calls of the current run, in order.
Collab == SelectSeq(calls, LAMBDA c : c \notin Outcomes)

\* The order of a run in which nothing fails.
FullOrder(v) ==
    <<"breaker.is_open", "source.check_connection",
      "destination.check_connection", "source.read_records">>
    \o (IF v THEN <<"validator.validate_batch">> ELSE <<>>)
    \o <<"destination.write_records">>

\* C11: when run starts and the breaker's is_open() returns true, run raises
\* CircuitBreakerError: no collaborator is called, and neither record_failure
\* nor record_success is, so the breaker is left as is_open() left it, Open.
C11_OpenGateRefuses ==
    [][(pc = "idle" /\ Calls("is_open") /\ ret')
         => /\ Returned("raised")'
            /\ result'[1].error = "CircuitBreakerError"
            /\ pc' = "idle"
            /\ calls' = <<"breaker.is_open">>
            /\ written' = <<>>
            /\ state' = OPEN
            /\ UNCHANGED <<state, failure_count, last_failure_time,
                           last_success_time, failure_history,
                           success_history>>]_vars

C11_Witness ==
    /\ Returned("raised")
    /\ result[1].error = "CircuitBreakerError"
    /\ state = OPEN
    /\ failure_count = PipelineThreshold

\* C12: past the gate the collaborators are called in the order
\* source.check_connection, destination.check_connection,
\* source.read_records, validator.validate_batch (only when validate_data),
\* destination.write_records; a successful run made all of these calls, and
\* in a failed one the last collaborator called is the failing stage's.
C12_FixedOrder ==
    /\ IsPrefix(Collab, FullOrder(validate_data))
    /\ Returned("success") => Collab = FullOrder(validate_data)
    /\ failed_stage # "none" =>
         /\ failed_stage = "ConnectionCheck" =>
              Last(Collab) \in {"source.check_connection",
                                "destination.check_connection"}
         /\ failed_stage = "Extract" => Last(Collab) = "source.read_records"
         /\ failed_stage = "Validate" =>
              Last(Collab) = "validator.validate_batch"
         /\ failed_stage = "Load" => Last(Collab) = "destination.write_records"

C12_Witness ==
    /\ Returned("success")
    /\ validate_data
    /\ Len(Collab) = 6

\* C13: a run that passes the gate makes exactly one breaker outcome call:
\* record_failure once (and no record_success) when a stage fails,
\* record_success once (and no record_failure) when all stages succeed, and
\* none before the run ends.
C13_OneOutcomePerRun ==
    [][/\ (pc' # "idle") => UNCHANGED <<failure_history, success_history>>
       /\ (pc # "idle" /\ pc' = "idle" /\ failed_stage' # "none") =>
            /\ Len(failure_history') = Len(failure_history) + 1
            /\ success_history' = success_history
            /\ Count(calls', "breaker.record_failure") = 1
            /\ Count(calls', "breaker.record_success") = 0
       /\ (pc # "idle" /\ pc' = "idle" /\ failed_stage' = "none") =>
            /\ Len(success_history') = Len(success_history) + 1
            /\ failure_history' = failure_history
            /\ Count(calls', "breaker.record_success") = 1
            /\ Count(calls', "breaker.record_failure") = 0]_vars

C13_Witness ==
    /\ Returned("failed")
    /\ Len(failure_history) = 2
    /\ Len(success_history) = 0

\* The stage an error message of run's own names.
StageOfMessage(msg) ==
    CASE msg = "Source connection failed" -> "ConnectionCheck"
      [] msg = "Destination connection failed" -> "ConnectionCheck"
      [] msg = "No records extracted from source" -> "Extract"
      [] msg = "Data contract violation" -> "Validate"
      [] msg = "Load failed" -> "Load"
      [] OTHER -> "none"

C15_OnlyGateRaises ==
    /\ Returned("raised") =>
         /\ result[1].error = "CircuitBreakerError"
         /\ failed_stage = "none"
         /\ calls = <<"breaker.is_open">>
    /\ (pc = "idle" /\ failed_stage # "none") => Returned("failed")

C15_Witness ==
    /\ Returned("failed")
    /\ failed_by = "RuntimeError"
    /\ failed_stage = "ConnectionCheck"

\* C16: when source.read_records returns an empty list the run is Failed:
\* record_failure is called exactly once, and neither the validator nor
\* destination.write_records is called.
C16_EmptyExtractFails ==
    records = << <<>> >> =>
        /\ pc = "idle"
        /\ Returned("failed")
        /\ failed_stage = "Extract"
        /\ Count(calls, "breaker.record_failure") = 1
        /\ Last(calls) = "breaker.record_failure"
        /\ Last(failure_history).error = result[1].error
        /\ Count(calls, "validator.validate_batch") = 0
        /\ Count(calls, "destination.write_records") = 0
        /\ vb_pc = "idle"
        /\ written = <<>>

C16_Witness ==
    /\ records = << <<>> >>
    /\ Returned("failed")
    /\ validate_data

\* C17: when validate_data is true and validate_batch raises,
\* destination.write_records is never called in that run.
C17_ViolationBlocksLoad ==
    (validate_data /\ vb_pc = "raised") =>
        /\ Count(calls, "destination.write_records") = 0
        /\ written = <<>>
        /\ pc \in {"validating", "idle"}
        /\ pc = "idle" => Returned("failed") /\ failed_stage = "Validate"

C17_Witness ==
    /\ validate_data
    /\ vb_pc = "raised"
    /\ Returned("failed")
    /\ Len(vb_violations) = PipelineMaxViolations

Bad == {i \in 0..(Len(vb_data) - 1) : vb_data[i + 1] # VALID_REC}
Min(S) == CHOOSE i \in S : \A j \in S : i <= j
UpTo(n) == [k \in 1..(n + 1) |-> k - 1]
Done == vb_pc \in {"returned", "raised"}

\* C19: with fail_fast, validate_batch raises at the first invalid record,
\* naming its index i (from 0); no record after i is evaluated; it returns a
\* result only when every record is valid.
C19_FailFastStopsAtFirst ==
    vb_fail_fast =>
        /\ Bad # {} => \A k \in DOMAIN vb_evaluated : vb_evaluated[k] <= Min(Bad)
        /\ (Done /\ Bad # {}) =>
             /\ vb_pc = "raised"
             /\ vb_out = <<[kind |-> "record", record_index |-> Min(Bad),
                            record |-> vb_data[Min(Bad) + 1]]>>
             /\ vb_evaluated = UpTo(Min(Bad))
        /\ (Done /\ Bad = {}) =>
             /\ vb_pc = "returned"
             /\ vb_out[1].valid
             /\ vb_evaluated = UpTo(Len(vb_data) - 1)

C19_Witness ==
    /\ vb_fail_fast
    /\ vb_pc = "raised"
    /\ vb_out[1].record_index = 1
    /\ Len(vb_data) = 4
    /\ Len(vb_evaluated) = 2

\* The index of the n-th invalid record.
NthBad(n) == CHOOSE i \in Bad : Cardinality({j \in Bad : j <= i}) = n

C21_ReportBelowMaxViolations ==
    (~vb_fail_fast /\ Done /\ Cardinality(Bad) < vb_max) =>
        /\ vb_pc = "returned"
        /\ vb_out[1].total_records = Len(vb_data)
        /\ vb_out[1].invalid_records = Cardinality(Bad)
        /\ vb_out[1].valid_records + vb_out[1].invalid_records = Len(vb_data)
        /\ vb_out[1].valid = (Bad = {})
        /\ Len(vb_out[1].violations) = Cardinality(Bad)
        /\ \A k \in DOMAIN vb_out[1].violations :
              vb_out[1].violations[k] =
                  violation(NthBad(k), vb_data[NthBad(k) + 1])
        /\ LET rate == vb_out[1].violation_rate
           IN  /\ rate[2] > 0
               /\ IF Len(vb_data) = 0
                    THEN rate[1] = 0
                    ELSE rate[1] * Len(vb_data) = Cardinality(Bad) * rate[2]

\* 4 records with 2 invalid and max_violations = 10: total 4, invalid 2,
\* rate 0.5.
C21_Witness ==
    /\ ~vb_fail_fast
    /\ vb_max = DefaultMaxViolations
    /\ vb_pc = "returned"
    /\ Len(vb_data) = 4
    /\ Cardinality(Bad) = 2
    /\ vb_out[1].total_records = 4
    /\ vb_out[1].invalid_records = 2
    /\ 2 * vb_out[1].violation_rate[1] = vb_out[1].violation_rate[2]

\* ----------------------------------- claims on ContractValidator.validate_single

\* The record validated and the entries of the message returned for it.
Given == cs_record[1]
Message == cs_out[1].message
Reported == {Message[k] : k \in DOMAIN Message}
Validated == cs_pc = "validated"

\* The rules as the specification words them; prices in cents.
UpperCase(v) ==
    /\ \E i \in DOMAIN v : v[i] \in UpperChars
    /\ \A i \in DOMAIN v : v[i] \notin LowerChars
SymbolRule(v) == 2 <= Len(v) /\ Len(v) <= 10 /\ UpperCase(v)
PriceRule(v) == 1 < v /\ v < 100000000
TimestampRule(v, t) == v <= t /\ t - v <= 24 * 3600 * TicksPerSecond
OptionalRule(v) == v = <<>> \/ v[1] >= 0

\* C22: validate_single returns valid exactly when the symbol has length 2
\* to 10 and is upper-case, the price satisfies the price rule (strictly
\* inside (0.01, 1_000_000)), the timestamp is not later than the validation
\* time and not more than 24 hours before it, and volume and market_cap are
\* absent or >= 0.
C22_ValidIffAllRules ==
    Validated =>
        (cs_out[1].valid <=>
            /\ SymbolRule(Given.symbol)
            /\ PriceRule(Given.price)
            /\ TimestampRule(Given.timestamp, cs_now)
            /\ OptionalRule(Given.volume)
            /\ OptionalRule(Given.market_cap))

\* C23: a price is accepted only if it lies strictly inside
\* (0.01, 1_000_000); exactly 0.01 and exactly 1,000,000 are both rejected.
C23_PriceStrictlyInside ==
    Validated =>
        ((\A k \in DOMAIN Message : Message[k][1] # "price")
            => PriceRule(Given.price))

When(cond, x) == IF cond THEN {x} ELSE {}

\* Every check a record fails, with its field.
Violated(data, t) ==
    When(Len(data.symbol) < 2, <<"symbol", "min_length">>)
    \cup When(Len(data.symbol) > 10, <<"symbol", "max_length">>)
    \cup When(~UpperCase(data.symbol), <<"symbol", "uppercase">>)
    \cup When(data.price <= 0, <<"price", "gt">>)
    \cup When(data.price > 100000000, <<"price", "high">>)
    \cup When(data.price <= 1, <<"price", "low">>)
    \cup When(t - data.timestamp > 24 * 3600 * TicksPerSecond,
              <<"timestamp", "too_old">>)
    \cup When(data.timestamp > t, <<"timestamp", "future">>)
    \cup When(~OptionalRule(data.volume), <<"volume", "ge">>)
    \cup When(~OptionalRule(data.market_cap), <<"market_cap", "ge">>)

\* C24 as stated: for an invalid record the message lists every rule the
\* record violates, each with its field, not only the first.
C24_ListsEveryViolatedRule ==
    (Validated /\ ~cs_out[1].valid) => Reported = Violated(Given, cs_now)

\* The fields in the order of their declaration, and the checks of a field
\* in the order they are made.
FieldOrder == <<"symbol", "price", "timestamp", "volume", "market_cap">>
CheckOrder ==
    <<"min_length", "max_length", "uppercase", "gt", "high", "low",
      "too_old", "future", "ge">>
Pos(s, x) == CHOOSE i \in DOMAIN s : s[i] = x

\* C24: for an invalid record the message has one entry for every field that
\* fails a check, in the order of the fields, and none for the others; the
\* entry names the field and the first check the field fails (its declared
\* constraint before its validator's rule), so a field failing two checks
\* has one entry.
C24_ListsFirstFailurePerField ==
    Validated =>
        /\ cs_out[1].valid <=> Message = <<>>
        /\ cs_out[1].valid <=> Violated(Given, cs_now) = {}
        /\ \A j, k \in DOMAIN Message :
              j < k => Pos(FieldOrder, Message[j][1])
                         < Pos(FieldOrder, Message[k][1])
        /\ Reported \subseteq Violated(Given, cs_now)
        /\ \A v \in Violated(Given, cs_now) :
              \E r \in Reported :
                  /\ r[1] = v[1]
                  /\ Pos(CheckOrder, r[2]) <= Pos(CheckOrder, v[2])

C24_Witness ==
    /\ Validated
    /\ Given.symbol = <<"b">>
    /\ Given.price = -10000
    /\ Given.volume = <<-10000>>
    /\ Len(Message) = 3
    /\ Cardinality(Violated(Given, cs_now)) = 5

\* ------------------------------------------------ claims on overlapping runs

\* The callers whose run in flight was admitted with the breaker HalfOpen.
Probes == {c \in Callers : th_gate[c] = HALF_OPEN}

\* C25: once is_open() has moved the breaker from Open to HalfOpen, at most
\* one run is admitted past the gate before an outcome is recorded: a second
\* caller checking the gate while the probe is in flight is refused.
C25_SingleProbe == Cardinality(Probes) <= 1

\* C26: the breaker's mutations are atomic: of overlapping record_failure
\* calls no increment is lost.  With no record_success so far and no
\* record_failure in progress, failure_count is the number of failures
\* recorded, the history entries carry the counts 1, 2, ... and the breaker
\* has tripped exactly when that number has reached the threshold.
C26_NoLostIncrement ==
    (Recording = {} /\ success_history = <<>>) =>
        /\ failure_count = Len(failure_history)
        /\ \A i \in DOMAIN failure_history :
              failure_history[i].failure_count = i
        /\ state # CLOSED <=> Len(failure_history) >= failure_threshold

\* ------------------------------------- claims on the breaker's transitions

\* C27: the state becomes HalfOpen only inside is_open() (called by the
\* client or by get_status, which calls self.is_open()), and only from Open;
\* record_success, record_failure and reset never leave the state HalfOpen.
C27_HalfOpenOnlyByIsOpen ==
    [][/\ (state' = HALF_OPEN /\ state # HALF_OPEN) =>
            /\ state = OPEN
            /\ Calls("is_open") \/ Calls("get_status")
            /\ RecoveryDue(last_failure_time, now, recovery_timeout)
       /\ (Calls("record_success") \/ Calls("record_failure")
             \/ Calls("reset")) => state' # HALF_OPEN]_vars

C27_Witness ==
    /\ state = HALF_OPEN
    /\ pre_state = OPEN
    /\ op = "is_open"
    /\ ~ret

\* C28: failure_count is set to 0 by record_success from HalfOpen and by
\* reset, which both end in Closed, and by nothing else; record_failure
\* increases it by one and every other call leaves it, so it never decreases
\* while the state is Open or HalfOpen.
C28_CountResetOnlyOnClose ==
    [][/\ Calls("record_failure") => failure_count' = failure_count + 1
       /\ Calls("reset") => failure_count' = 0 /\ state' = CLOSED
       /\ Calls("record_success") =>
            IF state = HALF_OPEN
              THEN failure_count' = 0 /\ state' = CLOSED
              ELSE failure_count' = failure_count
       /\ (Calls("is_open") \/ Calls("get_status")) =>
            failure_count' = failure_count
       /\ failure_count' # failure_count =>
            \/ failure_count' = failure_count + 1 /\ op' = "record_failure"
            \/ /\ failure_count' = 0
               /\ state' = CLOSED
               /\ op' \in {"record_success", "reset"}
       /\ state' \in {OPEN, HALF_OPEN} =>
            failure_count' >= failure_count]_vars

C28_Witness ==
    /\ op = "record_success"
    /\ pre_state = HALF_OPEN
    /\ state = CLOSED
    /\ failure_count = 0
    /\ failure_history # <<>>

\* C29: the histories are append-only: record_failure appends one failure
\* entry, whose failure_count is the breaker's failure_count after the
\* increment; record_success appends one success entry; is_open, reset and
\* get_status leave both histories as they are.
C29_HistoriesAppendOnly ==
    [][/\ IsPrefix(failure_history, failure_history')
       /\ IsPrefix(success_history, success_history')
       /\ Calls("record_failure") =>
            /\ Len(failure_history') = Len(failure_history) + 1
            /\ Last(failure_history').failure_count = failure_count'
            /\ Last(failure_history').failure_count = failure_count + 1
            /\ success_history' = success_history
       /\ Calls("record_success") =>
            /\ Len(success_history') = Len(success_history) + 1
            /\ Last(success_history').state = state
            /\ failure_history' = failure_history
       /\ (Calls("is_open") \/ Calls("reset") \/ Calls("get_status")) =>
            UNCHANGED <<failure_history, success_history>>]_vars

C29_Witness ==
    /\ op = "reset"
    /\ Len(failure_history) = 2
    /\ Len(success_history) = 1
    /\ failure_count = 0
    /\ failure_history[2].failure_count = 2

\* The calls a run can make on its collaborators and on the gate.
RunCalls ==
    {"breaker.is_open", "source.check_connection",
     "destination.check_connection", "source.read_records",
     "validator.validate_batch", "destination.write_records"}

\* C30: the orchestrator never retries: in one run the gate and each of
\* source.check_connection, destination.check_connection,
\* source.read_records, validate_batch and destination.write_records is
\* called at most once, and a failed run is over once record_failure was
\* called: it makes no further call and starts no other run.
C30_NeverRetries ==
    /\ \A c \in RunCalls : Count(calls, c) <= 1
    /\ failed_stage # "none" =>
         /\ pc = "idle"
         /\ Returned("failed")
         /\ Last(calls) = "breaker.record_failure"

C30_Witness ==
    /\ Returned("failed")
    /\ failed_stage = "Load"
    /\ validate_data
    /\ Len(calls) = 7

\* ------------------------------------------------------------------- C31

\* C31: with failure_threshold >= 1 and single-threaded access, in every
\* reachable state of the breaker: the state is Open or HalfOpen only if
\* failure_count >= failure_threshold, and Closed only if
\* failure_count < failure_threshold.
C31_StateMatchesCount ==
    failure_threshold >= 1 =>
        /\ state \in {OPEN, HALF_OPEN} => failure_count >= failure_threshold
        /\ state = CLOSED => failure_count < failure_threshold

\* The breaker tripped, took one more failure while Open, and was moved to
\* HalfOpen by is_open after the timeout.
C31_Witness ==
    /\ op = "is_open"
    /\ pre_state = OPEN
    /\ state = HALF_OPEN
    /\ failure_count > failure_threshold

\* ------------------------------------------------------------------- C32

\* The 0-based index raw record i of recs has in the list handed to
\* validate_batch, when the record is mapped at all.
ContractIndex(recs, i) ==
    Cardinality({j \in 1..i : recs[j] # NOKEY_REC}) - 1

\* Raw record i of recs was evaluated by the validator in this run.
Evaluated(recs, i) ==
    /\ recs[i] # NOKEY_REC
    /\ \E k \in DOMAIN vb_evaluated : vb_evaluated[k] = ContractIndex(recs, i)

\* C32: when validate is true, every record passed to
\* destination.write_records in a successful run was evaluated by the
\* validator in that run, records lacking a symbol or price field included.
C32_LoadedWereValidated ==
    (Returned("success") /\ validate_data) =>
        /\ Len(written[1]) = Len(records[1])
        /\ \A i \in DOMAIN written[1] :
              /\ written[1][i] = records[1][i]
              /\ Evaluated(records[1], i)

\* ------------------------------------------------------------------- C33

\* The extracted records that are mapped to the contract format and invalid.
InvalidMapped == Count(records[1], INVALID_REC)

\* The validate stage of a run with validate_data = true is over.
ValidateOver == validate_data /\ Done /\ pc # "validating"

RunCalled == pc = "idle" /\ now' = now

\* The run just called is refused: CircuitBreakerError leaves run, the
\* breaker stays Open and no collaborator was called.
Refused ==
    /\ result = <<[status |-> "raised", error |-> "CircuitBreakerError"]>>
    /\ calls = <<"breaker.is_open">>
    /\ pc = "idle"
    /\ state = OPEN

\* C34: on a fresh pipeline (threshold 3, recovery_timeout 300 s), after
\* three failed runs, every run() called before the recovery timeout has
\* elapsed raises CircuitBreakerError and calls neither the source nor the
\* destination, whatever the collaborators would answer.
C34_RefusedAfterThreeFailures ==
    [][(/\ RunCalled
        /\ Len(failure_history) = 3
        /\ Elapsed < 300 * TicksPerSecond) => Refused'
      ]_vars

\* A run was refused after the third failure, some time after it and
\* before the timeout.
C34_Witness ==
    /\ Refused
    /\ op = "is_open"
    /\ ret
    /\ Len(failure_history) = 3
    /\ Elapsed > 0
    /\ Elapsed < 300 * TicksPerSecond

\* ------------------------------------------------------------------- C35

\* The step is the except clause of a probe run (a run admitted in
\* HalfOpen): it records the probe's failure and ends the run.
ProbeFails ==
    /\ pc # "idle"
    /\ pc' = "idle"
    /\ state = HALF_OPEN
    /\ op' = "record_failure"

\* The breaker was last called by the except clause of a probe run.
ProbeFailed == op = "record_failure" /\ pre_state = HALF_OPEN

\* C35: a half-open probe run that fails restarts the recovery clock at its
\* failure (the time its record_failure reads), and the next run() is
\* refused as long as less than recovery_timeout has elapsed since then,
\* however long ago the breaker tripped.
C35_ClockRestartsAtProbeFailure ==
    [][/\ ProbeFails => (last_failure_time' = now /\ state' = OPEN)
       /\ (/\ RunCalled
           /\ ProbeFailed
           /\ Elapsed < recovery_timeout * TicksPerSecond) => Refused'
      ]_vars

\* A run was refused after the probe's failure, although more than the
\* recovery timeout has passed since the breaker tripped.
C35_Witness ==
    /\ Refused
    /\ op = "is_open"
    /\ ret
    /\ Len(failure_history) = 4
    /\ last_failure_time >= RecoveryWait
    /\ Elapsed > 0
    /\ Elapsed < recovery_timeout * TicksPerSecond

\* ------------------------------------------------------------------- C36

\* C36: with runs made one after the other, every Success result reports
\* circuit_breaker_state closed, every Failed result reports open exactly
\* when the failure_count it reports is >= the threshold and closed
\* otherwise; no result reports half_open.
C36_ResultReportsState ==
    /\ Returned("success") => result[1].circuit_breaker_state = CLOSED
    /\ Returned("failed") =>
          /\ result[1].circuit_breaker_state \in {OPEN, CLOSED}
          /\ result[1].circuit_breaker_state = OPEN
                <=> result[1].failure_count >= failure_threshold

\* A probe run admitted in HalfOpen succeeded and reports closed.
C36_Witness ==
    /\ Returned("success")
    /\ op = "record_success"
    /\ pre_state = HALF_OPEN
    /\ result[1].circuit_breaker_state = CLOSED

\* ------------------------------------------------------------------- C37

\* C37: the snapshot get_status() returns is self-consistent: its is_open
\* is true if and only if its state is open.
C37_SnapshotConsistent ==
    op = "get_status" => (status[1].is_open <=> status[1].state = OPEN)

\* ------------------------------------------------- claims on overlapping runs

\* The step is caller c's record_success, at the end of its run.
Succeeds(c) ==
    /\ th_pc[c] = "admitted"
    /\ th_pc'[c] = "idle"
    /\ Len(success_history') = Len(success_history) + 1

FailureBegins(c) == th_pc[c] = "admitted" /\ th_pc'[c] = "rf_loaded"

\* The step is the store of "self.failure_count += 1" in c's record_failure.
FailureStores(c) == th_pc[c] = "rf_loaded" /\ th_pc'[c] = "rf_stored"

\* The step is a statement of caller c's record_failure.
FailureStep(c) ==
    /\ th_pc'[c] # th_pc[c]
    /\ th_pc'[c] \in {"rf_loaded", "rf_stored", "rf_appended"}
          \/ th_pc[c] = "rf_appended"

====
